---------------------------- MODULE Spec2Model ----------------------------
(***************************************************************************)
(* Citation attribution in the energy-search front end.                    *)
(*                                                                         *)
(* Two entry points compose a cited answer from a Vertex AI answerQuery    *)
(* response:                                                               *)
(*   - VertexSearchProvider.search (lib/tools/search/providers/vertex.ts)  *)
(*     splices [n] markers into the answer text at the byte offsets of the *)
(*     citation spans;                                                     *)
(*   - POST /api/energy-search -> queryAIMode (app/api/energy-search/      *)
(*     route.ts) renumbers the inline [k] markers of the answer text and   *)
(*     turns the reference list into citations.                            *)
(*                                                                         *)
(* A JavaScript string is a sequence of code points, a Buffer a sequence   *)
(* of bytes (0..255).                                                      *)
(***************************************************************************)
EXTENDS Integers, Sequences, FiniteSets, TLC

VARIABLES
    pc,          \* position of the running handler
    entry,       \* "none" | "search" | "route": the entry point that was called
    query,       \* the query text of the request
    answerText,  \* data.answer.answerText
    state,       \* data.answer.state
    skipReasons, \* data.answer.answerSkippedReasons
    spans,       \* data.answer.citations (search)
    references,  \* data.answer.references
    results,     \* search: the results array of Promise.all
    citations,   \* route: the citations array of transformReferences
    pending,     \* indices (0-based) of references whose signed-url fetch is in flight
    lookups,     \* every signed-url fetch issued so far, in order: <<documentId, page>>
    failed,      \* indices of the references whose signed-url fetch did not give a url
    idx,         \* route: loop index i of transformReferences
    composed,    \* FALSE until the marker pass over the answer text has run
    output,      \* the answer text handed back (ai_mode_answer / answer)
    response,    \* what the caller receives: [kind, status, message]
    answerRequests, \* the answerQuery requests sent to the answer service so far
    finalText,   \* stream: the text handed to the emitter
    words,       \* createTextStream: text.split(' ')
    wi,          \* createTextStream: loop index i
    frames,      \* every frame enqueued (written) so far, in order
    timer,       \* createTextStream: TRUE while the setTimeout of the pacing is pending
    streamState, \* "none" | "readable" | "closed" | "cancelled": state of the stream
    cancelLen,   \* the number of frames enqueued when the consumer cancelled
    threw,       \* TRUE once an exception was raised inside the emitter
    searchMode,  \* manual stream: config.searchMode
    toolCallDataAnnotation, \* executeToolCall: "null" or the state of the annotation
    toolCallMessages,       \* executeToolCall: the messages handed to the researcher
    toolCallId,             \* executeToolCall: toolCallAnnotation.data.toolCallId, "" before
    streamTextCalls,        \* manual stream: the calls of streamText so far
    handleStreamFinishCalls, \* manual stream: the calls of handleStreamFinish made by
                             \* createManualToolStreamResponse itself so far
    uploadState, \* DocumentUpload: the uploadState of useState
    submitted,   \* DocumentUpload: the files handed to handleFile so far, in order
    inFlight,    \* DocumentUpload: the calls of handleFile (by position in submitted)
                 \* that are awaiting their fetch
    viewId,      \* document view route: params.id of the request
    viewPage,    \* document view route: searchParams.get('page') of the request
    viewFetches, \* document view route: the signed-url requests sent so far
    backend      \* document view route: how the backend answered the last request

\* the variables of the streaming entry points
streamVars == <<finalText, words, wi, frames, timer, streamState, cancelLen, threw>>

\* the variables of executeToolCall
manualVars == <<searchMode, toolCallDataAnnotation, toolCallMessages, toolCallId,
                streamTextCalls, handleStreamFinishCalls>>

\* the variables of the DocumentUpload component
uploadVars == <<uploadState, submitted, inFlight>>

\* the variables of GET /api/documents/[id]/view
viewVars == <<viewId, viewPage, viewFetches, backend>>

\* the variables of the document front end
docVars == <<uploadVars, viewVars>>

\* the variables of the answer entry points, without pc, entry and response
answerVars == <<query, answerText, state, skipReasons, spans, references, results,
                citations, pending, lookups, failed, idx, composed, output,
                answerRequests>>

vars == <<pc, entry, query, answerText, state, skipReasons, spans, references,
          results, citations, pending, lookups, failed, idx, composed, output, response,
          answerRequests, streamVars, manualVars, docVars>>

----------------------------------------------------------------------------
(* Bounds of the model *)

\* longest answer text of the search entry point, in characters
MaxTextLen == 2
\* most citation spans in one answer
MaxSpans == 2
\* most sources listed by one span
MaxSources == 2
\* most references in one answer of the search entry point
MaxSearchRefs == 3
\* most references in one answer of queryAIMode
MaxRefs == 2
\* most parts (a letter or an inline marker) of an answer text of queryAIMode
MaxParts == 2
\* longest final text handed to the stream emitter, in characters
MaxStreamLen == 3
\* most results of one search of executeToolCall
MaxToolResults == 2
\* most files handed to one DocumentUpload component
MaxUploads == 3
\* most requests the document view route serves
MaxViewRequests == 2

----------------------------------------------------------------------------
(* Characters *)

\* the characters of the answer texts: 'a' (one byte in UTF-8) and U+00E9 (two bytes,
\* C3 A9)
OneByteChars == {97}
TwoByteChars == {233}
ChA == CHOOSE c \in OneByteChars : TRUE
\* '['
ChLBracket == 91
\* ']'
ChRBracket == 93
\* '0'
ChZero == 48
\* U+FFFD REPLACEMENT CHARACTER, what the decoder substitutes
ChReplacement == 65533

Min(a, b) == IF a < b THEN a ELSE b

\* `${n}` for a non-negative integer: its decimal digits
RECURSIVE Dec(_)
Dec(n) == IF n < 10 THEN <<ChZero + n>> ELSE Dec(n \div 10) \o <<ChZero + (n % 10)>>

IsDigit(c) == c >= ChZero /\ c <= ChZero + 9

\* the value parseInt gives for a string that does not start with digits
NaN == -1

\* the missing field of an object
Undefined == <<0>>

\* parseInt(s): the value of the leading decimal digits, NaN when there are none
RECURSIVE ParseDigits(_, _, _)
ParseDigits(s, i, acc) ==
    IF i > Len(s) \/ ~IsDigit(s[i]) THEN acc
    ELSE ParseDigits(s, i + 1, 10 * acc + (s[i] - ChZero))

ParseInt(s) ==
    IF Len(s) = 0 \/ ~IsDigit(s[1]) THEN NaN ELSE ParseDigits(s, 1, 0)

----------------------------------------------------------------------------
(* UTF-8 *)

\* Buffer.from(str, 'utf-8') of one code point (BMP)
EncodeChar(c) ==
    IF c < 128 THEN <<c>>
    ELSE IF c < 2048 THEN <<192 + (c \div 64), 128 + (c % 64)>>
    ELSE <<224 + (c \div 4096), 128 + ((c \div 64) % 64), 128 + (c % 64)>>

\* Buffer.from(str, 'utf-8')
RECURSIVE Utf8Encode(_)
Utf8Encode(str) ==
    IF str = <<>> THEN <<>> ELSE EncodeChar(Head(str)) \o Utf8Encode(Tail(str))

\* Buffer.from(str, 'utf-8').length
ByteLength(str) == Len(Utf8Encode(str))

\* buf.toString('utf-8'): the decoder of the Encoding standard. need = bytes still
\* expected of the current character, cp = its bits so far, lo..hi = the range the
\* next byte must lie in. An ill-formed sequence decodes to U+FFFD and the offending
\* byte is read again.
RECURSIVE DecodeFrom(_, _, _, _, _, _)
DecodeFrom(b, i, need, cp, lo, hi) ==
    IF i > Len(b) THEN (IF need = 0 THEN <<>> ELSE <<ChReplacement>>)
    ELSE IF need = 0 THEN
        IF b[i] < 128 THEN <<b[i]>> \o DecodeFrom(b, i + 1, 0, 0, 128, 191)
        ELSE IF b[i] >= 194 /\ b[i] <= 223
            THEN DecodeFrom(b, i + 1, 1, b[i] - 192, 128, 191)
        ELSE IF b[i] >= 224 /\ b[i] <= 239
            THEN DecodeFrom(b, i + 1, 2, b[i] - 224,
                            IF b[i] = 224 THEN 160 ELSE 128,
                            IF b[i] = 237 THEN 159 ELSE 191)
        ELSE IF b[i] >= 240 /\ b[i] <= 244
            THEN DecodeFrom(b, i + 1, 3, b[i] - 240,
                            IF b[i] = 240 THEN 144 ELSE 128,
                            IF b[i] = 244 THEN 143 ELSE 191)
        ELSE <<ChReplacement>> \o DecodeFrom(b, i + 1, 0, 0, 128, 191)
    ELSE IF b[i] < lo \/ b[i] > hi
        THEN <<ChReplacement>> \o DecodeFrom(b, i, 0, 0, 128, 191)
    ELSE IF need = 1
        THEN <<cp * 64 + (b[i] - 128)>> \o DecodeFrom(b, i + 1, 0, 0, 128, 191)
    ELSE DecodeFrom(b, i + 1, need - 1, cp * 64 + (b[i] - 128), 128, 191)

Utf8Decode(b) == DecodeFrom(b, 1, 0, 0, 128, 191)

\* buf.subarray(0, end): end is clamped to the length of the buffer
SubarrayBefore(b, end) == SubSeq(b, 1, Min(end, Len(b)))

\* buf.subarray(start)
SubarrayAfter(b, start) == SubSeq(b, Min(start, Len(b)) + 1, Len(b))


----------------------------------------------------------------------------
(* Sequences *)

SeqsUpTo(S, n) == UNION {[1..k -> S] : k \in 0..n}

Range(s) == {s[i] : i \in 1..Len(s)}

\* s.filter(keep): the elements of s for which keep holds, in order
RECURSIVE SelectIn(_, _)
SelectIn(s, keepSet) ==
    IF s = <<>> THEN <<>>
    ELSE IF Head(s) \in keepSet THEN <<Head(s)>> \o SelectIn(Tail(s), keepSet)
    ELSE SelectIn(Tail(s), keepSet)

\* [...new Set(s)]: the first occurrence of each element, in order
RECURSIVE Unique(_)
Unique(s) ==
    IF s = <<>> THEN <<>>
    ELSE LET init == Unique(SubSeq(s, 1, Len(s) - 1))
             last == s[Len(s)]
         IN IF last \in Range(init) THEN init ELSE Append(init, last)

\* the position of the first occurrence of x in s
IndexOf(s, x) == CHOOSE i \in 1..Len(s) : s[i] = x /\ \A j \in 1..(i - 1) : s[j] # x

\* parts.join('')
RECURSIVE Join(_)
Join(parts) == IF parts = <<>> THEN <<>> ELSE Head(parts) \o Join(Tail(parts))

----------------------------------------------------------------------------
(* The pattern /\[(\d+)\]/ *)

\* the index of the last digit of the run of digits that starts at s[i]; i - 1 when
\* s[i] is no digit
RECURSIVE DigitsEnd(_, _)
DigitsEnd(s, i) ==
    IF i <= Len(s) /\ IsDigit(s[i]) THEN DigitsEnd(s, i + 1) ELSE i - 1

\* the index of the closing bracket when /\[\d+\]/ matches at s[i], 0 otherwise
MatchEnd(s, i) ==
    IF i <= Len(s) /\ s[i] = ChLBracket
        THEN LET e == DigitsEnd(s, i + 1)
             IN IF e >= i + 1 /\ e + 1 <= Len(s) /\ s[e + 1] = ChRBracket
                    THEN e + 1 ELSE 0
    ELSE 0

\* str.match(/\[(\d+)\]/g).map(m => parseInt(m.slice(1, -1))): the number of every
\* marker of the text, left to right
RECURSIVE MarkerNumbersFrom(_, _)
MarkerNumbersFrom(s, i) ==
    IF i > Len(s) THEN <<>>
    ELSE IF MatchEnd(s, i) # 0
        THEN <<ParseInt(SubSeq(s, i + 1, MatchEnd(s, i) - 1))>>
             \o MarkerNumbersFrom(s, MatchEnd(s, i) + 1)
    ELSE MarkerNumbersFrom(s, i + 1)

MarkerNumbers(s) == MarkerNumbersFrom(s, 1)

\* str.split(/(\[\d+\])/g) without the markers: the text between the markers
RECURSIVE StripMarkersFrom(_, _)
StripMarkersFrom(s, i) ==
    IF i > Len(s) THEN <<>>
    ELSE IF MatchEnd(s, i) # 0 THEN StripMarkersFrom(s, MatchEnd(s, i) + 1)
    ELSE <<s[i]>> \o StripMarkersFrom(s, i + 1)

StripMarkers(s) == StripMarkersFrom(s, 1)

----------------------------------------------------------------------------
(* The answerQuery response *)

\* a falsy optional number (page_number, timestamp_start that is undefined or 0)
Absent == 0

TextChars == OneByteChars \cup TwoByteChars

\* answer texts of the search entry point
Texts == SeqsUpTo(TextChars, MaxTextLen)

\* one source of a citation span: referenceIndex is a decimal string or missing
SourceEntries ==
    { [referenceIndex |-> Dec(0), referenceId |-> Undefined],
      [referenceIndex |-> Dec(2), referenceId |-> Undefined],
      [referenceIndex |-> Undefined, referenceId |-> Undefined] }

\* the source lists of a span: up to MaxSources parsable sources, or one source
\* without a parsable index
SourceLists ==
    SeqsUpTo({e \in SourceEntries : e.referenceIndex # Undefined}, MaxSources)
        \cup {<<e>> : e \in SourceEntries}

\* the citation spans an answer over `text` may carry: endIndex is a decimal string,
\* from 0 to one byte past the end of the text
SpanSet(text) ==
    [endIndex : {Dec(n) : n \in 0..(ByteLength(text) + 1)}, sources : SourceLists]

SpanLists(text) == SeqsUpTo(SpanSet(text), MaxSpans)

\* documentMetadata.structData of a reference; a missing string field is ""
NoStructData ==
    [structData |-> FALSE, source_type |-> "", document_id |-> "", page_number |-> Absent,
     video_id |-> "", timestamp_start |-> Absent]

Video(ts) ==
    [structData |-> TRUE, source_type |-> "", document_id |-> "", page_number |-> Absent,
     video_id |-> "vid", timestamp_start |-> ts]

Document(type, id, page) ==
    [structData |-> TRUE, source_type |-> type, document_id |-> id, page_number |-> page,
     video_id |-> "", timestamp_start |-> Absent]

\* the references of an answer of the search entry point
SearchStructs == {Video(30), Document("pdf", "abc", 4)}

SearchRefLists == SeqsUpTo(SearchStructs, MaxSearchRefs)

\* how one signed-url request to the document backend ends
LookupOutcomes == {"ok", "not_ok", "throws", "bad_body"}

\* no url: '' (search) or undefined (route)
NoUrl == <<>>

\* the url the backend signs for a page of a document
SignedUrl(documentId, pageNumber) == <<"signed", documentId, pageNumber>>

\* `https://youtube.com/watch?v=${video_id}&t=${timestamp}s`
YoutubeUrl(videoId, timestamp) == <<"youtube", videoId, timestamp>>

\* the caller has received nothing yet
NoResponse == [kind |-> "none", status |-> 0, message |-> <<>>]

----------------------------------------------------------------------------
(* VertexSearchProvider.search: the marker pass *)

\* [...citations].sort((a, b) => parseInt(a.endIndex) - parseInt(b.endIndex)):
\* ascending and stable
RECURSIVE InsertSorted(_, _)
InsertSorted(sorted, c) ==
    IF sorted = <<>> THEN <<c>>
    ELSE IF ParseInt(sorted[Len(sorted)].endIndex) <= ParseInt(c.endIndex)
        THEN Append(sorted, c)
    ELSE Append(InsertSorted(SubSeq(sorted, 1, Len(sorted) - 1), c), sorted[Len(sorted)])

RECURSIVE SortedCitations(_)
SortedCitations(cs) ==
    IF cs = <<>> THEN <<>>
    ELSE InsertSorted(SortedCitations(SubSeq(cs, 1, Len(cs) - 1)), cs[Len(cs)])

\* s.referenceIndex ?? s.referenceId, parsed; NaN when both are missing
SourceIndex(s) ==
    LET raw == IF s.referenceIndex # Undefined THEN s.referenceIndex ELSE s.referenceId
    IN IF raw # Undefined THEN ParseInt(raw) ELSE NaN

\* citation.sources.map(...).filter(idx => !isNaN(idx))
RefIndices(citation) ==
    LET mapped == [i \in 1..Len(citation.sources) |-> SourceIndex(citation.sources[i])]
    IN SelectIn(mapped, Range(mapped) \ {NaN})

UniqueRefs(citation) == Unique(RefIndices(citation))

\* `[${idx + 1}]`
MarkerOf(refIdx) == <<ChLBracket>> \o Dec(refIdx + 1) \o <<ChRBracket>>

\* uniqueRefs.map(idx => `[${idx + 1}]`).join('')
Marker(uniqueRefs) == Join([i \in 1..Len(uniqueRefs) |-> MarkerOf(uniqueRefs[i])])

\* Buffer.concat([before, Buffer.from(marker), after]).toString('utf-8')
SpliceMarker(text, adjustedEndIndex, marker) ==
    LET textBuffer == Utf8Encode(text)
    IN Utf8Decode(SubarrayBefore(textBuffer, adjustedEndIndex)
                  \o Utf8Encode(marker)
                  \o SubarrayAfter(textBuffer, adjustedEndIndex))

\* one iteration of the loop over sortedCitations. st.placed records, for each marker
\* the loop spliced, the span's endIndex and the marker.
MarkerStep(st, citation) ==
    LET originalEndIndex == ParseInt(citation.endIndex)
        uniqueRefs == UniqueRefs(citation)
        marker == Marker(uniqueRefs)
    IN IF originalEndIndex \in st.markedPositions THEN st
       ELSE IF Len(uniqueRefs) = 0
           THEN [st EXCEPT !.markedPositions = @ \cup {originalEndIndex}]
       ELSE [aiModeAnswer |-> SpliceMarker(st.aiModeAnswer,
                                           originalEndIndex + st.offsetAdjustment, marker),
             markedPositions |-> st.markedPositions \cup {originalEndIndex},
             offsetAdjustment |-> st.offsetAdjustment + ByteLength(marker),
             placed |-> Append(st.placed, [endIndex |-> originalEndIndex,
                                           refs |-> uniqueRefs,
                                           marker |-> marker])]

RECURSIVE MarkerLoop(_, _)
MarkerLoop(st, sorted) ==
    IF sorted = <<>> THEN st
    ELSE MarkerLoop(MarkerStep(st, Head(sorted)), Tail(sorted))

\* the marker pass of search over the answer text
InsertMarkers(text, cs) ==
    MarkerLoop([aiModeAnswer |-> text, markedPositions |-> {}, offsetAdjustment |-> 0,
                placed |-> <<>>],
               SortedCitations(cs))

----------------------------------------------------------------------------
(* VertexSearchProvider.search: references to results *)

\* structData.source_type && structData.document_id
IsDocument(sd) == sd.structData /\ sd.source_type # "" /\ sd.document_id # ""

\* the test without the comparison of source_type with 'pdf'
NeedsLookupAnyFormat(sd) ==
    IsDocument(sd) /\ sd.page_number # Absent

\* a document source with structData.source_type === 'pdf' && structData.page_number
NeedsLookup(sd) ==
    IsDocument(sd) /\ sd.source_type = "pdf" /\ sd.page_number # Absent

\* the try/catch around the signed-url fetch: the url on success, '' otherwise
SignedUrlFetch(sd, outcome) ==
    IF outcome = "ok" THEN SignedUrl(sd.document_id, sd.page_number) ELSE NoUrl

\* x || d for an optional number
OrDefault(x, d) == IF x # Absent THEN x ELSE d

\* the result object a reference maps to, given the url of a document source
SearchResult(sd, url) ==
    IF ~sd.structData
        THEN [settled |-> TRUE, url |-> NoUrl, source_type |-> "", document_id |-> "",
              page_number |-> Absent, video_id |-> "", timestamp_start |-> Absent]
    ELSE IF IsDocument(sd)
        THEN [settled |-> TRUE, url |-> url, source_type |-> sd.source_type,
              document_id |-> sd.document_id, page_number |-> sd.page_number,
              video_id |-> "", timestamp_start |-> Absent]
    ELSE [settled |-> TRUE,
          url |-> IF sd.video_id # ""
                      THEN YoutubeUrl(sd.video_id, OrDefault(sd.timestamp_start, 0))
                  ELSE NoUrl,
          source_type |-> "", document_id |-> "", page_number |-> Absent,
          video_id |-> sd.video_id, timestamp_start |-> sd.timestamp_start]

\* a slot of the results array whose mapper is still awaiting its fetch
Unsettled == [settled |-> FALSE, url |-> NoUrl, source_type |-> "", document_id |-> "",
              page_number |-> Absent, video_id |-> "", timestamp_start |-> Absent]

\* getEmptyResults(query)
EmptyResults == [kind |-> "empty", status |-> 0, message |-> <<>>]

\* the SearchResults object with ai_mode_answer
ResultsResponse == [kind |-> "results", status |-> 0, message |-> <<>>]

States == {"SUCCEEDED", "FAILED"}

SkipReasonLists ==
    {<<>>, <<"NO_RELEVANT_CONTENT">>, <<"NO_RELEVANT_CONTENT", "OUT_OF_DOMAIN_QUERY_IGNORED">>}

\* search(query): the token is fetched and the answer request is sent
SearchCall ==
    /\ answerRequests' = answerRequests + 1
    /\ UNCHANGED <<streamVars, manualVars, docVars>>
    /\ pc = "idle"
    /\ pc' = "search_fetch"
    /\ entry' = "search"
    /\ query' = "q"
    /\ UNCHANGED <<answerText, state, skipReasons, spans, references, results,
                   citations, pending, lookups, failed, idx, composed, output, response>>

\* !response.ok, or the token or the request throws: getEmptyResults
SearchRequestFails ==
    /\ UNCHANGED <<answerRequests, streamVars, manualVars, docVars>>
    /\ pc = "search_fetch"
    /\ pc' = "done"
    /\ response' = EmptyResults
    /\ UNCHANGED <<entry, query, answerText, state, skipReasons, spans, references,
                   results, citations, pending, lookups, failed, idx, composed, output>>

\* data.answer.state === 'FAILED': getEmptyResults
SearchAnswerFailed ==
    /\ UNCHANGED <<answerRequests, streamVars, manualVars, docVars>>
    /\ pc = "search_fetch"
    /\ \E r \in SkipReasonLists :
        /\ state' = "FAILED"
        /\ skipReasons' = r
    /\ pc' = "done"
    /\ response' = EmptyResults
    /\ UNCHANGED <<entry, query, answerText, spans, references, results, citations,
                   pending, lookups, failed, idx, composed, output>>

\* The answer arrives; Promise.all starts every mapper: each runs to its first await,
\* so every signed-url fetch is issued here, in reference order.
SearchAnswerSucceeded ==
    /\ UNCHANGED <<answerRequests, streamVars, manualVars, docVars>>
    /\ pc = "search_fetch"
    /\ \E text \in Texts, refs \in SearchRefLists :
        \E cs \in SpanLists(text) :
            /\ answerText' = text
            /\ spans' = cs
            /\ references' = refs
            /\ results' = [i \in 1..Len(refs) |->
                              IF NeedsLookup(refs[i]) THEN Unsettled
                              ELSE SearchResult(refs[i], NoUrl)]
            /\ pending' = {i \in 1..Len(refs) : NeedsLookup(refs[i])}
            /\ lookups' = SelectIn([i \in 1..Len(refs) |->
                                       <<refs[i].document_id, refs[i].page_number>>],
                                   {<<refs[i].document_id, refs[i].page_number>> :
                                       i \in {j \in 1..Len(refs) : NeedsLookup(refs[j])}})
    /\ state' = "SUCCEEDED"
    /\ pc' = "search_resolve"
    /\ UNCHANGED <<entry, query, skipReasons, citations, failed, idx, composed, output,
                   response>>

\* one signed-url fetch settles; its mapper returns the result object
SearchLookupSettles ==
    /\ UNCHANGED <<answerRequests, streamVars, manualVars, docVars>>
    /\ pc = "search_resolve"
    /\ \E i \in pending, outcome \in LookupOutcomes :
        /\ results' = [results EXCEPT
                          ![i] = SearchResult(references[i],
                                              SignedUrlFetch(references[i], outcome))]
        /\ pending' = pending \ {i}
        /\ failed' = IF outcome = "ok" THEN failed ELSE failed \cup {i}
    /\ UNCHANGED <<pc, entry, query, answerText, state, skipReasons, spans, references,
                   citations, lookups, idx, composed, output, response>>

\* Promise.all has resolved: the marker pass runs and search returns
SearchCompose ==
    /\ UNCHANGED <<answerRequests, streamVars, manualVars, docVars>>
    /\ pc = "search_resolve"
    /\ pending = {}
    /\ output' = InsertMarkers(answerText, spans).aiModeAnswer
    /\ composed' = TRUE
    /\ response' = ResultsResponse
    /\ pc' = "done"
    /\ UNCHANGED <<entry, query, answerText, state, skipReasons, spans, references,
                   results, citations, pending, lookups, failed, idx>>

----------------------------------------------------------------------------
(* POST /api/energy-search: queryAIMode and transformReferences *)

\* the numbers the service writes in the inline markers of an answer text
RawNumbers == {1, 2, 5}

\* the parts an answer text of queryAIMode is made of: a letter or a marker [k]
TextParts == {<<ChA>>} \cup {<<ChLBracket>> \o Dec(k) \o <<ChRBracket>> : k \in RawNumbers}

\* answer texts of queryAIMode
RouteTexts == {Join(parts) : parts \in SeqsUpTo(TextParts, MaxParts)}

\* the references of an answer of queryAIMode
RouteStructs ==
    { NoStructData, Video(30), Video(Absent),
      Document("pdf", "abc", 4), Document("pdf", "abc", Absent), Document("docx", "abc", 4) }

RouteRefLists == SeqsUpTo(RouteStructs, MaxRefs)

\* getDocumentSignedUrl(documentId, pageNumber): data.url when the backend answers ok
\* with a JSON body, undefined on a non-ok status and on anything thrown in the try
\* block (the fetch, response.json()). threw: the call itself rejects.
GetDocumentSignedUrlNoCatch(documentId, pageNumber, outcome) ==
    IF outcome = "ok" THEN [threw |-> FALSE, url |-> SignedUrl(documentId, pageNumber)]
    ELSE IF outcome = "not_ok" THEN [threw |-> FALSE, url |-> NoUrl]
    ELSE [threw |-> TRUE, url |-> NoUrl]

GetDocumentSignedUrl(documentId, pageNumber, outcome) ==
    IF outcome = "ok" THEN [threw |-> FALSE, url |-> SignedUrl(documentId, pageNumber)]
    ELSE [threw |-> FALSE, url |-> NoUrl]

\* the AIModeCitation transformReferences pushes for references[i] (i counted from 0).
\* sourceIndex is not a field of the object: it records which reference the entry was
\* built from.
CitationOf(sd, i, deepLink) ==
    IF ~sd.structData
        THEN [citationNumber |-> i + 1, sourceType |-> "youtube", documentId |-> "",
              pageNumber |-> Absent, videoId |-> "", timestamp |-> Absent,
              deepLink |-> NoUrl, sourceIndex |-> i]
    ELSE IF IsDocument(sd)
        THEN [citationNumber |-> i + 1, sourceType |-> sd.source_type,
              documentId |-> sd.document_id, pageNumber |-> OrDefault(sd.page_number, 1),
              videoId |-> "", timestamp |-> Absent,
              deepLink |-> deepLink, sourceIndex |-> i]
    ELSE [citationNumber |-> i + 1, sourceType |-> "youtube", documentId |-> "",
          pageNumber |-> Absent, videoId |-> sd.video_id,
          timestamp |-> OrDefault(sd.timestamp_start, 0),
          deepLink |-> NoUrl, sourceIndex |-> i]

\* CitationCard.getUrl with the test of citation.videoId left out
GetUrlDeepLinkOnly(citation) ==
    IF citation.deepLink # NoUrl THEN citation.deepLink ELSE <<"#">>

\* CitationCard.getUrl: the href of the card of a citation
GetUrl(citation) ==
    IF citation.sourceType = "youtube" /\ citation.videoId # ""
        THEN YoutubeUrl(citation.videoId, OrDefault(citation.timestamp, 0))
    ELSE IF citation.deepLink # NoUrl THEN citation.deepLink
    ELSE <<"#">>

\* uniqueNumbers.sort((a, b) => a - b)
RECURSIVE SortAscending(_)
SortAscending(S) ==
    IF S = {} THEN <<>>
    ELSE LET m == CHOOSE x \in S : \A y \in S : x <= y
         IN <<m>> \o SortAscending(S \ {m})

\* [...uniqueNumbers].sort((a, b) => b - a)
RECURSIVE SortDescending(_)
SortDescending(S) ==
    IF S = {} THEN <<>>
    ELSE LET m == CHOOSE x \in S : \A y \in S : x >= y
         IN <<m>> \o SortDescending(S \ {m})

\* the unique marker numbers of the answer, ascending
UniqueNumbers(answer) == SortAscending(Range(MarkerNumbers(answer)))

\* numberMap.get(oldNum): the 1-based rank of oldNum among the unique numbers
NumberMap(answer, oldNum) == IndexOf(UniqueNumbers(answer), oldNum)

\* whether pat occurs in s at position i
OccursAt(s, pat, i) ==
    i + Len(pat) - 1 <= Len(s) /\ SubSeq(s, i, i + Len(pat) - 1) = pat

\* s.replace(new RegExp(pat, 'g'), rep) for a literal pattern: every occurrence, left
\* to right, without overlap
RECURSIVE ReplaceAllFrom(_, _, _, _)
ReplaceAllFrom(s, pat, rep, i) ==
    IF i > Len(s) THEN <<>>
    ELSE IF OccursAt(s, pat, i) THEN rep \o ReplaceAllFrom(s, pat, rep, i + Len(pat))
    ELSE <<s[i]>> \o ReplaceAllFrom(s, pat, rep, i + 1)

ReplaceAll(s, pat, rep) == ReplaceAllFrom(s, pat, rep, 1)

\* the loop over sortedOldNumbers: each old number is replaced, in the whole current
\* text, by its new number
RECURSIVE RewriteLoop(_, _, _)
RewriteLoop(answer, original, olds) ==
    IF olds = <<>> THEN answer
    ELSE RewriteLoop(ReplaceAll(answer, MarkerOf(Head(olds) - 1),
                                MarkerOf(NumberMap(original, Head(olds)) - 1)),
                     original, Tail(olds))

\* the answer text queryAIMode returns
RemapAnswer(answer) ==
    RewriteLoop(answer, answer, SortDescending(Range(MarkerNumbers(answer))))

\* citations.forEach((c, idx) => { c.citationNumber = idx + 1 })
Renumber(cs) == [i \in 1..Len(cs) |-> [cs[i] EXCEPT !.citationNumber = i]]

\* answerSkippedReasons?.join(', ') || 'Unknown'
RECURSIVE JoinReasons(_)
JoinReasons(reasons) ==
    IF reasons = <<>> THEN <<>>
    ELSE IF Len(reasons) = 1 THEN reasons
    ELSE <<Head(reasons), ", ">> \o JoinReasons(Tail(reasons))

ReasonsOrUnknown(reasons) ==
    IF JoinReasons(reasons) = <<>> THEN <<"Unknown">> ELSE JoinReasons(reasons)

\* NextResponse.json({ error }, { status })
ErrorResponse(status, message) == [kind |-> "error", status |-> status, message |-> message]

\* NextResponse.json(result)
AnswerResponse == [kind |-> "answer", status |-> 200, message |-> <<>>]

\* the fixed reply for an empty answer, with citations: []
FallbackResponse ==
    [kind |-> "fallback", status |-> 200,
     message |-> <<"I couldn't find relevant information in Spencer's content library">>]

\* POST with no query: 400
PostEmptyQuery ==
    /\ UNCHANGED <<answerRequests, streamVars, manualVars, docVars>>
    /\ pc = "idle"
    /\ pc' = "done"
    /\ entry' = "route"
    /\ query' = ""
    /\ response' = ErrorResponse(400, <<"Query is required">>)
    /\ UNCHANGED <<answerText, state, skipReasons, spans, references, results,
                   citations, pending, lookups, failed, idx, composed, output>>

\* POST with a query: queryAIMode sends the answer request
PostQuery ==
    /\ answerRequests' = answerRequests + 1
    /\ UNCHANGED <<streamVars, manualVars, docVars>>
    /\ pc = "idle"
    /\ pc' = "route_fetch"
    /\ entry' = "route"
    /\ query' = "q"
    /\ UNCHANGED <<answerText, state, skipReasons, spans, references, results,
                   citations, pending, lookups, failed, idx, composed, output, response>>

\* !response.ok: queryAIMode throws, POST answers 500 with the message
QueryRequestFails ==
    /\ UNCHANGED <<answerRequests, streamVars, manualVars, docVars>>
    /\ pc = "route_fetch"
    /\ pc' = "done"
    /\ response' = ErrorResponse(500, <<"AI Mode request failed">>)
    /\ UNCHANGED <<entry, query, answerText, state, skipReasons, spans, references,
                   results, citations, pending, lookups, failed, idx, composed, output>>

\* data.answer.state === 'FAILED': queryAIMode throws `AI Mode failed: ${reasons}`
QueryAnswerFailed ==
    /\ UNCHANGED <<answerRequests, streamVars, manualVars, docVars>>
    /\ pc = "route_fetch"
    /\ \E r \in SkipReasonLists :
        /\ state' = "FAILED"
        /\ skipReasons' = r
        /\ response' = ErrorResponse(500, <<"AI Mode failed: ">> \o ReasonsOrUnknown(r))
    /\ pc' = "done"
    /\ UNCHANGED <<entry, query, answerText, spans, references, results, citations,
                   pending, lookups, failed, idx, composed, output>>

\* the answer arrives; transformReferences starts its loop
QueryAnswerSucceeded ==
    /\ UNCHANGED <<answerRequests, streamVars, manualVars, docVars>>
    /\ pc = "route_fetch"
    /\ \E text \in RouteTexts, refs \in RouteRefLists :
        /\ answerText' = text
        /\ references' = refs
    /\ state' = "SUCCEEDED"
    /\ idx' = 0
    /\ citations' = <<>>
    /\ pc' = "transform"
    /\ UNCHANGED <<entry, query, skipReasons, spans, results, pending, lookups, failed,
                   composed, output, response>>

\* one iteration of the loop for a reference that needs no signed url
TransformPush ==
    /\ UNCHANGED <<answerRequests, streamVars, manualVars, docVars>>
    /\ pc = "transform"
    /\ idx < Len(references)
    /\ ~NeedsLookup(references[idx + 1])
    /\ citations' = Append(citations, CitationOf(references[idx + 1], idx, NoUrl))
    /\ idx' = idx + 1
    /\ UNCHANGED <<pc, entry, query, answerText, state, skipReasons, spans, references,
                   results, pending, lookups, failed, composed, output, response>>

\* the iteration for a pdf with a page number: await getDocumentSignedUrl(...)
TransformLookup ==
    /\ UNCHANGED <<answerRequests, streamVars, manualVars, docVars>>
    /\ pc = "transform"
    /\ idx < Len(references)
    /\ NeedsLookup(references[idx + 1])
    /\ lookups' = Append(lookups, <<references[idx + 1].document_id,
                                    references[idx + 1].page_number>>)
    /\ pending' = {idx + 1}
    /\ pc' = "route_lookup"
    /\ UNCHANGED <<entry, query, answerText, state, skipReasons, spans, references,
                   results, citations, failed, idx, composed, output, response>>

\* getDocumentSignedUrl settles; the citation is pushed (a rejection would unwind
\* queryAIMode into the catch of POST)
LookupReturns ==
    /\ UNCHANGED <<answerRequests, streamVars, manualVars, docVars>>
    /\ pc = "route_lookup"
    /\ \E outcome \in LookupOutcomes :
        LET sd == references[idx + 1]
            got == GetDocumentSignedUrl(sd.document_id, sd.page_number, outcome)
        IN /\ failed' = IF outcome = "ok" THEN failed ELSE failed \cup {idx + 1}
           /\ IF got.threw
               THEN /\ pc' = "done"
                    /\ response' = ErrorResponse(500, <<"fetch failed">>)
                    /\ UNCHANGED <<citations, idx>>
               ELSE /\ pc' = "transform"
                    /\ citations' = Append(citations, CitationOf(sd, idx, got.url))
                    /\ idx' = idx + 1
                    /\ UNCHANGED response
    /\ pending' = {}
    /\ UNCHANGED <<entry, query, answerText, state, skipReasons, spans, references,
                   results, lookups, composed, output>>

\* the loop is over: the markers are renumbered, the citations numbered by position,
\* and POST answers with the result (or with the fixed reply when the answer is empty)
QueryCompose ==
    /\ UNCHANGED <<answerRequests, streamVars, manualVars, docVars>>
    /\ pc = "transform"
    /\ idx = Len(references)
    /\ output' = RemapAnswer(answerText)
    /\ citations' = Renumber(citations)
    /\ composed' = TRUE
    /\ response' = IF RemapAnswer(answerText) = <<>> THEN FallbackResponse
                   ELSE AnswerResponse
    /\ pc' = "done"
    /\ UNCHANGED <<entry, query, answerText, state, skipReasons, spans, references,
                   results, pending, lookups, failed, idx>>

----------------------------------------------------------------------------
(* createAIModeStreamResponse and createTextStream (docs/pdf-indexing-guide.md) *)

ChSpace == 32
ChQuote == 34
ChNewline == 10
ChBackslash == 92
ChLetterN == 110

\* the characters of the final texts: a letter, the space the text is split on, the two
\* characters the emitter escapes, and the escape character itself
StreamChars == {ChLetterN, ChSpace, ChQuote, ChNewline, ChBackslash}

\* the final texts: aiModeResult.answer + formatSourcesMarkdown(...), or
\* `Error: ${errorMessage}`
StreamTexts == SeqsUpTo(StreamChars, MaxStreamLen)

\* 'Please provide a search query.'
EmptyQueryMessage ==
    <<80, 108, 101, 97, 115, 101, 32, 112, 114, 111, 118, 105, 100, 101, 32, 97, 32,
      115, 101, 97, 114, 99, 104, 32, 113, 117, 101, 114, 121, 46>>

\* the position of the first sep in s at or after i, 0 when there is none
RECURSIVE Find(_, _, _)
Find(s, sep, i) ==
    IF i > Len(s) THEN 0 ELSE IF s[i] = sep THEN i ELSE Find(s, sep, i + 1)

\* a split on runs of separators, as text.split(/ +/) would
SplitOnRuns(s, sep) ==
    LET RECURSIVE SkipRun(_)
        SkipRun(j) == IF j <= Len(s) /\ s[j] = sep THEN SkipRun(j + 1) ELSE j
        RECURSIVE From(_)
        From(i) ==
            LET j == Find(s, sep, i)
            IN IF j = 0 THEN <<SubSeq(s, i, Len(s))>>
               ELSE <<SubSeq(s, i, j - 1)>> \o From(SkipRun(j))
    IN From(1)

\* text.split(' '): the pieces between the separators, empty pieces included
RECURSIVE SplitFrom(_, _, _)
SplitFrom(s, sep, i) ==
    LET j == Find(s, sep, i)
    IN IF j = 0 THEN <<SubSeq(s, i, Len(s))>>
       ELSE <<SubSeq(s, i, j - 1)>> \o SplitFrom(s, sep, j + 1)

Split(s, sep) == SplitFrom(s, sep, 1)

\* s.replace(/c/g, rep) for a one-character pattern
RECURSIVE ReplaceChar(_, _, _)
ReplaceChar(s, c, rep) ==
    IF s = <<>> THEN <<>>
    ELSE (IF Head(s) = c THEN rep ELSE <<Head(s)>>) \o ReplaceChar(Tail(s), c, rep)

\* word.replace(/"/g, '\\"').replace(/\n/g, '\\n')
Escape(word) ==
    ReplaceChar(ReplaceChar(word, ChQuote, <<ChBackslash, ChQuote>>),
                ChNewline, <<ChBackslash, ChLetterN>>)

\* the loop reading the words from the last one down
WordFromEnd(ws, i) == ws[Len(ws) - i] \o (IF i < Len(ws) - 1 THEN <<ChSpace>> ELSE <<>>)

\* words[i] + (i < words.length - 1 ? ' ' : ''), i counted from 0
Word(ws, i) == ws[i + 1] \o (IF i < Len(ws) - 1 THEN <<ChSpace>> ELSE <<>>)

\* `0:"${...}"\n`
TextLine(word) == <<48, 58, ChQuote>> \o Escape(word) \o <<ChQuote, ChNewline>>

\* 'd:{"finishReason":"stop"}\n'
FinishLine ==
    <<100, 58, 123, 34, 102, 105, 110, 105, 115, 104, 82, 101, 97, 115, 111, 110, 34, 58,
      34, 115, 116, 111, 112, 34, 125, 10>>

\* a frame of the stream: the bytes enqueued; type and unit record what it was made from
TextFrame(word) == [type |-> "text", unit |-> word, bytes |-> Utf8Encode(TextLine(word))]

FinishFrame == [type |-> "finish", unit |-> <<>>, bytes |-> Utf8Encode(FinishLine)]

\* new ReadableStream({ start }): start splits the text, enqueues the first word and
\* awaits the pacing timer
StartStream(text) ==
    /\ finalText' = text
    /\ words' = Split(text, ChSpace)
    /\ wi' = 0
    /\ frames' = <<TextFrame(Word(Split(text, ChSpace), 0))>>
    /\ timer' = TRUE
    /\ streamState' = "readable"
    /\ pc' = "stream_wait"
    /\ UNCHANGED <<cancelLen, threw>>

\* !query: the stream of the fixed message is returned, queryAIMode is not called
StreamEmptyQuery ==
    /\ UNCHANGED <<manualVars, docVars>>
    /\ pc = "idle"
    /\ entry' = "stream"
    /\ query' = ""
    /\ StartStream(EmptyQueryMessage)
    /\ response' = [kind |-> "stream", status |-> 200, message |-> <<>>]
    /\ UNCHANGED <<answerText, state, skipReasons, spans, references, results, citations,
                   pending, lookups, failed, idx, composed, output, answerRequests>>

\* a query: queryAIMode(query) is awaited
StreamQuery ==
    /\ UNCHANGED <<manualVars, docVars>>
    /\ pc = "idle"
    /\ pc' = "stream_fetch"
    /\ entry' = "stream"
    /\ query' = "q"
    /\ answerRequests' = answerRequests + 1
    /\ UNCHANGED <<answerText, state, skipReasons, spans, references, results, citations,
                   pending, lookups, failed, idx, composed, output, response, streamVars>>

\* queryAIMode has resolved or thrown: the stream of fullResponse, or of the error
\* text, is returned
StreamResponseReady ==
    /\ UNCHANGED <<manualVars, docVars>>
    /\ pc = "stream_fetch"
    /\ \E text \in StreamTexts : StartStream(text)
    /\ response' = [kind |-> "stream", status |-> 200, message |-> <<>>]
    /\ UNCHANGED <<entry, query, answerText, state, skipReasons, spans, references,
                   results, citations, pending, lookups, failed, idx, composed, output,
                   answerRequests>>

\* controller.enqueue / controller.close on a stream that is no longer readable throw a
\* TypeError: start() rejects and the loop is over
EmitterThrows ==
    /\ threw' = TRUE
    /\ timer' = FALSE
    /\ pc' = "done"
    /\ UNCHANGED <<finalText, words, wi, frames, streamState, cancelLen>>

\* the pacing timer fires and the loop goes on with the next word
StreamNextWord ==
    /\ UNCHANGED <<manualVars, docVars>>
    /\ pc = "stream_wait"
    /\ wi + 1 < Len(words)
    /\ IF streamState = "readable"
        THEN /\ frames' = Append(frames, TextFrame(Word(words, wi + 1)))
             /\ wi' = wi + 1
             /\ timer' = TRUE
             /\ UNCHANGED <<pc, finalText, words, streamState, cancelLen, threw>>
        ELSE EmitterThrows
    /\ UNCHANGED <<entry, query, answerText, state, skipReasons, spans, references,
                   results, citations, pending, lookups, failed, idx, composed, output,
                   response, answerRequests>>

\* the pacing timer fires after the last word: the finish frame, then close
StreamFinish ==
    /\ UNCHANGED <<manualVars, docVars>>
    /\ pc = "stream_wait"
    /\ wi + 1 = Len(words)
    /\ IF streamState = "readable"
        THEN /\ frames' = Append(frames, FinishFrame)
             /\ wi' = wi + 1
             /\ timer' = FALSE
             /\ streamState' = "closed"
             /\ pc' = "done"
             /\ UNCHANGED <<finalText, words, cancelLen, threw>>
        ELSE EmitterThrows
    /\ UNCHANGED <<entry, query, answerText, state, skipReasons, spans, references,
                   results, citations, pending, lookups, failed, idx, composed, output,
                   response, answerRequests>>

\* the consumer cancels while the emitter awaits its timer: the stream is closed for
\* the controller. The underlying source has no cancel(): nothing clears the timer.
StreamCancel ==
    /\ UNCHANGED <<manualVars, docVars>>
    /\ pc = "stream_wait"
    /\ streamState = "readable"
    /\ streamState' = "cancelled"
    /\ cancelLen' = Len(frames)
    /\ UNCHANGED <<pc, entry, query, answerText, state, skipReasons, spans, references,
                   results, citations, pending, lookups, failed, idx, composed, output,
                   response, answerRequests, finalText, words, wi, frames, timer, threw>>

----------------------------------------------------------------------------
(* createManualToolStreamResponse and executeToolCall *)

ChLParen == 40
ChRParen == 41
ChLetterU == 117

\* the parts an ai_mode_answer is made of: a letter, a marker [k], an opening parenthesis
ToolTextParts == TextParts \cup {<<ChLParen>>}

\* the ai_mode_answer of the search results; '' when search gave getEmptyResults
ToolAnswers == {Join(parts) : parts \in SeqsUpTo(ToolTextParts, MaxParts)}

\* one entry of searchResults.results: a video, a pdf with or without url and page, a
\* docx. Strings are sequences of characters, '' when missing.
ToolResult(url, type, id, page) ==
    [url |-> url, source_type |-> type, document_id |-> id, page_number |-> page]

ToolResults ==
    { ToolResult(<<ChLetterU>>, "", <<>>, Absent),
      ToolResult(<<ChLetterU>>, "pdf", <<ChA>>, 4),
      ToolResult(<<>>, "pdf", <<ChA>>, Absent),
      ToolResult(<<>>, "docx", <<ChA>>, 4) }

ToolResultLists == SeqsUpTo(ToolResults, MaxToolResults)

\* `/api/documents/${document_id}/view?page=${page_number || 1}` for a pdf with a
\* document_id, result.url otherwise
CitationUrl(result) ==
    IF result.source_type = "pdf" /\ result.document_id # <<>>
        THEN <<47, 97, 112, 105, 47, 100, 111, 99, 117, 109, 101, 110, 116, 115, 47>>
             \o result.document_id \o <<47, 118, 105, 101, 119, 63, 112, 97, 103, 101, 61>>
             \o Dec(OrDefault(result.page_number, 1))
    ELSE result.url

\* s.replace(new RegExp(`\\[${num}\\](?!\\()`, 'g'), rep): every [num] that no
\* opening parenthesis follows, left to right
RECURSIVE ReplaceUnlinkedFrom(_, _, _, _)
ReplaceUnlinkedFrom(s, pat, rep, i) ==
    IF i > Len(s) THEN <<>>
    ELSE IF OccursAt(s, pat, i)
            /\ ~(i + Len(pat) <= Len(s) /\ s[i + Len(pat)] = ChLParen)
        THEN rep \o ReplaceUnlinkedFrom(s, pat, rep, i + Len(pat))
    ELSE <<s[i]>> \o ReplaceUnlinkedFrom(s, pat, rep, i + 1)

\* the forEach over searchResults.results: [N] becomes [N](url), N = index + 1
RECURSIVE Linkify(_, _, _)
Linkify(answerWithLinks, rs, index) ==
    IF index >= Len(rs) THEN answerWithLinks
    ELSE Linkify(ReplaceUnlinkedFrom(answerWithLinks, MarkerOf(index),
                                     MarkerOf(index) \o <<ChLParen>>
                                         \o CitationUrl(rs[index + 1]) \o <<ChRParen>>,
                                     1),
                 rs, index + 1)

\* JSON.stringify of a string: quotes around, with \ " and the line feed escaped
JsonStringify(str) ==
    <<ChQuote>>
        \o ReplaceChar(ReplaceChar(ReplaceChar(str, ChBackslash, <<ChBackslash, ChBackslash>>),
                                   ChQuote, <<ChBackslash, ChQuote>>),
                       ChNewline, <<ChBackslash, ChLetterN>>)
        \o <<ChQuote>>

\* `call_${generateId()}`: the ids generateId may give
ToolCallIds == {"call_a", "call_b"}

\* dataStream.writeData(toolCallAnnotation): a 2: part. Of its JSON payload, data.state
\* and data.toolCallId are kept as fields.
DataFrame(id) ==
    [type |-> "data", unit |-> <<>>, bytes |-> <<50, 58>>,
     state |-> "call", toolCallId |-> id]

\* the result annotation with an id of its own instead of the spread of
\* toolCallAnnotation.data
AnnotationFrameOwnId(id) ==
    [type |-> "message_annotation", unit |-> <<>>, bytes |-> <<56, 58>>,
     state |-> "result", toolCallId |-> CHOOSE other \in ToolCallIds : other # id]

\* dataStream.writeMessageAnnotation(updatedToolCallAnnotation): an 8: part;
\* ...toolCallAnnotation.data keeps the toolCallId, state is 'result'
AnnotationFrame(id) ==
    [type |-> "message_annotation", unit |-> <<>>, bytes |-> <<56, 58>>,
     state |-> "result", toolCallId |-> id]

\* formatDataStreamPart('text', directAnswer)
DirectTextFrame(directAnswer) ==
    [type |-> "text", unit |-> directAnswer,
     bytes |-> Utf8Encode(<<48, 58>> \o JsonStringify(directAnswer) \o <<ChNewline>>)]

\* formatDataStreamPart('finish_message', { finishReason: 'stop', usage: ... })
DirectFinishFrame ==
    [type |-> "finish", unit |-> <<>>,
     bytes |-> Utf8Encode(<<100, 58, 123, 34, 102, 105, 110, 105, 115, 104, 82, 101, 97, 115, 111, 110, 34, 58, 34, 115, 116, 111, 112, 34, 44, 34, 117, 115, 97, 103, 101, 34, 58, 123, 34, 112, 114, 111, 109, 112, 116, 84, 111, 107, 101, 110, 115, 34, 58, 48, 44, 34, 99, 111, 109, 112, 108, 101, 116, 105, 111, 110, 84, 111, 107, 101, 110, 115, 34, 58, 48, 125, 125, 10>>)]

\* the direct answer written without the finish message
DirectPartsTextOnly(directAnswer) == <<DirectTextFrame(directAnswer)>>

\* what createManualToolStreamResponse writes for a direct answer: the text part, then
\* the finish_message part
DirectParts(directAnswer) == <<DirectTextFrame(directAnswer), DirectFinishFrame>>

\* the two messages of the fallback: the sources found, and the request to answer
FallbackMessages(rs) ==
    <<[role |-> "assistant", sources |-> Len(rs)], [role |-> "user", sources |-> 0]>>

\* the answer is left to the researcher model: streamText(manualResearcher(...))
GenerationResponse == [kind |-> "generation", status |-> 200, message |-> <<>>]

\* the direct answer was written to the stream
DirectResponse == [kind |-> "direct", status |-> 200, message |-> <<>>]

\* searchMode is off: executeToolCall returns the empty tool call, and the researcher
\* generates the answer
ManualSearchOff ==
    /\ pc = "idle"
    /\ \E q \in {"", "q"} : query' = q
    /\ entry' = "manual"
    /\ searchMode' = FALSE
    /\ streamTextCalls' = streamTextCalls + 1
    /\ response' = GenerationResponse
    /\ pc' = "done"
    /\ UNCHANGED <<answerText, state, skipReasons, spans, references, results, citations,
                   pending, lookups, failed, idx, composed, output, answerRequests,
                   streamVars, toolCallDataAnnotation, toolCallMessages, toolCallId,
                   handleStreamFinishCalls, docVars>>

\* !query: executeToolCall logs and returns the empty tool call; there is no direct
\* answer, so the researcher generates the answer
ManualEmptyQuery ==
    /\ pc = "idle"
    /\ query' = ""
    /\ entry' = "manual"
    /\ searchMode' = TRUE
    /\ streamTextCalls' = streamTextCalls + 1
    /\ response' = GenerationResponse
    /\ pc' = "done"
    /\ UNCHANGED <<answerText, state, skipReasons, spans, references, results, citations,
                   pending, lookups, failed, idx, composed, output, answerRequests,
                   streamVars, toolCallDataAnnotation, toolCallMessages, toolCallId,
                   handleStreamFinishCalls, docVars>>

\* a query: the call annotation is written and search(query, ...) is awaited
ManualSearch ==
    /\ pc = "idle"
    /\ query' = "q"
    /\ entry' = "manual"
    /\ searchMode' = TRUE
    /\ \E id \in ToolCallIds :
        /\ toolCallId' = id
        /\ frames' = Append(frames, DataFrame(id))
    /\ toolCallDataAnnotation' = "call"
    /\ answerRequests' = answerRequests + 1
    /\ pc' = "manual_search"
    /\ UNCHANGED <<answerText, state, skipReasons, spans, references, results, citations,
                   pending, lookups, failed, idx, composed, output, response,
                   finalText, words, wi, timer, streamState, cancelLen, threw,
                   toolCallMessages, streamTextCalls, handleStreamFinishCalls, docVars>>

\* search returned an ai_mode_answer: its markers are linked, and the stream response
\* writes the direct answer as one text part, then the finish message, calls
\* handleStreamFinish and returns before streamText
ManualDirectAnswer ==
    /\ pc = "manual_search"
    /\ \E aiModeAnswer \in ToolAnswers \ {<<>>}, rs \in ToolResultLists :
        /\ answerText' = aiModeAnswer
        /\ results' = rs
        /\ output' = Linkify(aiModeAnswer, rs, 0)
        /\ frames' = frames \o <<AnnotationFrame(toolCallId)>>
                             \o DirectParts(Linkify(aiModeAnswer, rs, 0))
    /\ toolCallDataAnnotation' = "result"
    /\ toolCallMessages' = <<>>
    /\ handleStreamFinishCalls' = handleStreamFinishCalls + 1
    /\ response' = DirectResponse
    /\ pc' = "done"
    /\ UNCHANGED <<entry, query, state, skipReasons, spans, references, citations,
                   pending, lookups, failed, idx, composed, answerRequests,
                   finalText, words, wi, timer, streamState, cancelLen, threw, searchMode,
                   toolCallId, streamTextCalls, docVars>>

\* search returned no ai_mode_answer: the researcher gets the sources and generates
\* (streamText; its onFinish callback is the SDK's to call and is not followed)
ManualFallback ==
    /\ pc = "manual_search"
    /\ \E rs \in ToolResultLists :
        /\ results' = rs
        /\ toolCallMessages' = FallbackMessages(rs)
    /\ frames' = Append(frames, AnnotationFrame(toolCallId))
    /\ toolCallDataAnnotation' = "result"
    /\ streamTextCalls' = streamTextCalls + 1
    /\ response' = GenerationResponse
    /\ pc' = "done"
    /\ UNCHANGED <<entry, query, answerText, state, skipReasons, spans, references,
                   citations, pending, lookups, failed, idx, composed, output,
                   answerRequests, finalText, words, wi, timer, streamState, cancelLen,
                   threw, searchMode, toolCallId, handleStreamFinishCalls, docVars>>

----------------------------------------------------------------------------
(* The DocumentUpload component *)

\* ACCEPTED_EXTENSIONS
AcceptedExtensions == {".pdf", ".docx"}

\* MAX_FILE_SIZE_MB
MaxFileSizeMb == 50

\* the files a user may drop or select; size is in megabytes
Files ==
    { [name |-> "a.pdf", extension |-> ".pdf", size |-> 1],
      [name |-> "b.docx", extension |-> ".docx", size |-> 1],
      [name |-> "c.txt", extension |-> ".txt", size |-> 1],
      [name |-> "d.pdf", extension |-> ".pdf", size |-> 51] }

\* validateFile(file): the error message, or "null"
ValidateFile(file) ==
    IF file.extension \notin AcceptedExtensions
        THEN "Invalid file type. Please upload PDF or DOCX files."
    ELSE IF file.size > MaxFileSizeMb THEN "File too large. Maximum size is 50MB."
    ELSE "null"

\* no result field
NoResult == <<>>

\* the result of the upload request of call n: the document the backend created
UploadResult(n) == <<"document", n>>

\* how one upload request ends: ok, a non-ok status, or a rejected fetch
UploadOutcomes == {"ok", "not_ok", "throws"}

\* a value of uploadState. `of` is not a field of the object: it records which call of
\* handleFile (by position in submitted) set the state, 0 for the idle state.
UploadStateOf(status, filename, error, result, n) ==
    [status |-> status, filename |-> filename, error |-> error, result |-> result,
     of |-> n]

\* { status: 'idle' }
IdleState == UploadStateOf("idle", "", "", NoResult, 0)

\* what a call of handleFile sets when its request has settled. n is the call, file
\* its argument (the closure of the async function keeps both).
SettledState(n, file, outcome) ==
    IF outcome = "ok" THEN UploadStateOf("success", file.name, "", UploadResult(n), n)
    ELSE UploadStateOf("error", file.name, "Upload failed", NoResult, n)

\* handleFile(file) with a file that validateFile rejects: the error is shown and no
\* request is sent. handleDrop is bound to the card whatever the status, so a file
\* can be given at any time.
HandleFileInvalid ==
    /\ Len(submitted) < MaxUploads
    /\ \E file \in Files :
        /\ ValidateFile(file) # "null"
        /\ submitted' = Append(submitted, file)
        /\ uploadState' = UploadStateOf("error", file.name, ValidateFile(file), NoResult,
                                        Len(submitted) + 1)
    /\ UNCHANGED <<pc, entry, response, answerVars, streamVars, manualVars, inFlight,
                   viewVars>>

\* handleFile(file) with a valid file: 'uploading' is shown and the request is sent
HandleFileUpload ==
    /\ Len(submitted) < MaxUploads
    /\ \E file \in Files :
        /\ ValidateFile(file) = "null"
        /\ submitted' = Append(submitted, file)
        /\ uploadState' = UploadStateOf("uploading", file.name, "", NoResult,
                                        Len(submitted) + 1)
    /\ inFlight' = inFlight \cup {Len(submitted) + 1}
    /\ UNCHANGED <<pc, entry, response, answerVars, streamVars, manualVars, viewVars>>

\* the request of one call of handleFile settles: the call resumes after its await and
\* sets 'success' with the result, or 'error' from the catch
UploadSettles ==
    /\ \E n \in inFlight, outcome \in UploadOutcomes :
        /\ uploadState' = SettledState(n, submitted[n], outcome)
        /\ inFlight' = inFlight \ {n}
    /\ UNCHANGED <<pc, entry, response, answerVars, streamVars, manualVars, submitted,
                   viewVars>>

\* resetUpload: the button is rendered in the 'success' and 'error' views
ResetUpload ==
    /\ uploadState.status \in {"success", "error"}
    /\ uploadState' = IdleState
    /\ UNCHANGED <<pc, entry, response, answerVars, streamVars, manualVars, submitted,
                   inFlight, viewVars>>

----------------------------------------------------------------------------
(* GET /api/documents/[id]/view *)

\* the ids of the documents asked for (the router gives no empty path segment, so the
\* 400 of a missing id is not reached)
ViewIds == {"abc", "def"}

\* searchParams.get('page'): null when the parameter is missing, else its text
PageParams == {Undefined, <<>>, Dec(4)}

\* the non-success statuses of the backend
ErrorStatuses == {404, 503}

\* how the backend answers the signed-url request: ok with { url }, ok with a JSON
\* body without url, ok with a body that is no JSON, a non-success status, or the
\* fetch rejects (status 0: no answer)
BackendAnswers ==
    {[kind |-> k, status |-> 200] : k \in {"ok", "no_url", "bad_body"}}
        \cup {[kind |-> "not_ok", status |-> st] : st \in ErrorStatuses}
        \cup {[kind |-> "throws", status |-> 0]}

\* no request is awaiting the backend
NoAnswer == [kind |-> "none", status |-> 0]

\* searchParams.get('page') || '1'
PageOrDefault(pageParam) ==
    IF pageParam = Undefined \/ pageParam = <<>> THEN Dec(1) ELSE pageParam

\* NextResponse.redirect(url): 307 with the Location
Redirect(url) == [kind |-> "redirect", status |-> 307, message |-> url]

\* the handler without the test of response.ok
ViewResponseUnchecked(answer, documentId, page) ==
    IF answer.kind \in {"ok", "not_ok"} THEN Redirect(SignedUrl(documentId, page))
    ELSE ErrorResponse(500, <<"Internal server error">>)

\* what GET answers, given the answer of the backend: the error body with the
\* backend's status when !response.ok; the redirect to data.url; 500 from the catch
\* when the fetch, response.json() or the redirect (no url) throws
ViewResponse(answer, documentId, page) ==
    IF answer.kind = "not_ok"
        THEN ErrorResponse(answer.status, <<"Failed to get document URL">>)
    ELSE IF answer.kind = "ok" THEN Redirect(SignedUrl(documentId, page))
    ELSE ErrorResponse(500, <<"Internal server error">>)

\* GET: the page is read and the signed-url request is sent to the backend
ViewGet ==
    /\ pc \in {"idle", "done"}
    /\ entry \in {"none", "view"}
    /\ Len(viewFetches) < MaxViewRequests
    /\ \E documentId \in ViewIds, pageParam \in PageParams :
        /\ viewId' = documentId
        /\ viewPage' = pageParam
        /\ viewFetches' = Append(viewFetches, <<documentId, PageOrDefault(pageParam)>>)
    /\ backend' = NoAnswer
    /\ response' = NoResponse
    /\ entry' = "view"
    /\ pc' = "view_fetch"
    /\ UNCHANGED <<answerVars, streamVars, manualVars, uploadVars>>

\* the backend answers (or the fetch rejects) and GET returns
ViewReturns ==
    /\ pc = "view_fetch"
    /\ \E answer \in BackendAnswers :
        /\ backend' = answer
        /\ response' = ViewResponse(answer, viewId, PageOrDefault(viewPage))
    /\ pc' = "done"
    /\ UNCHANGED <<entry, answerVars, streamVars, manualVars, uploadVars, viewId,
                   viewPage, viewFetches>>

----------------------------------------------------------------------------
(* Specifications *)

Init ==
    /\ pc = "idle"
    /\ entry = "none"
    /\ query = ""
    /\ answerText = <<>>
    /\ state = "STATE_UNSPECIFIED"
    /\ skipReasons = <<>>
    /\ spans = <<>>
    /\ references = <<>>
    /\ results = <<>>
    /\ citations = <<>>
    /\ pending = {}
    /\ lookups = <<>>
    /\ failed = {}
    /\ idx = 0
    /\ composed = FALSE
    /\ output = <<>>
    /\ response = NoResponse
    /\ answerRequests = 0
    /\ finalText = <<>>
    /\ words = <<>>
    /\ wi = 0
    /\ frames = <<>>
    /\ timer = FALSE
    /\ streamState = "none"
    /\ cancelLen = 0
    /\ threw = FALSE
    /\ searchMode = FALSE
    /\ toolCallDataAnnotation = "null"
    /\ toolCallMessages = <<>>
    /\ toolCallId = ""
    /\ streamTextCalls = 0
    /\ handleStreamFinishCalls = 0
    /\ uploadState = IdleState
    /\ submitted = <<>>
    /\ inFlight = {}
    /\ viewId = ""
    /\ viewPage = Undefined
    /\ viewFetches = <<>>
    /\ backend = NoAnswer

Next ==
    \/ SearchCall
    \/ SearchRequestFails
    \/ SearchAnswerFailed
    \/ SearchAnswerSucceeded
    \/ SearchLookupSettles
    \/ SearchCompose

\* VertexSearchProvider.search
Spec == Init /\ [][Next]_vars

NextRoute ==
    \/ PostEmptyQuery
    \/ PostQuery
    \/ QueryRequestFails
    \/ QueryAnswerFailed
    \/ QueryAnswerSucceeded
    \/ TransformPush
    \/ TransformLookup
    \/ LookupReturns
    \/ QueryCompose

\* POST /api/energy-search
SpecRoute == Init /\ [][NextRoute]_vars

\* POST /api/energy-search with the scheduling of the event loop: an iteration of
\* transformReferences that can run does run. The answer of the document backend to a
\* signed-url request is not a step of the handler: getDocumentSignedUrl arms no timer
\* and passes no abort signal, so nothing makes LookupReturns happen.
SpecRouteLive ==
    /\ SpecRoute
    /\ WF_vars(TransformPush)
    /\ WF_vars(TransformLookup)

NextStream ==
    \/ StreamEmptyQuery
    \/ StreamQuery
    \/ StreamResponseReady
    \/ StreamNextWord
    \/ StreamFinish
    \/ StreamCancel

\* createAIModeStreamResponse
SpecStream == Init /\ [][NextStream]_vars

NextManual ==
    \/ ManualSearchOff
    \/ ManualEmptyQuery
    \/ ManualSearch
    \/ ManualDirectAnswer
    \/ ManualFallback

\* createManualToolStreamResponse
SpecManual == Init /\ [][NextManual]_vars

\* the two entry points that write frames to a stream
NextEmit ==
    \/ NextStream
    \/ NextManual

SpecEmit == Init /\ [][NextEmit]_vars

NextUpload ==
    \/ HandleFileInvalid
    \/ HandleFileUpload
    \/ UploadSettles
    \/ ResetUpload

\* the DocumentUpload component
SpecUpload == Init /\ [][NextUpload]_vars

NextView ==
    \/ ViewGet
    \/ ViewReturns

\* GET /api/documents/[id]/view
SpecView == Init /\ [][NextView]_vars

----------------------------------------------------------------------------
(* What the claims speak of *)

\* search has returned a composed answer
SearchReturned == pc = "done" /\ entry = "search" /\ response.kind = "results"

\* the byte offsets of the text that lie between two characters (0 and the end included)
Boundaries(text) == {ByteLength(SubSeq(text, 1, k)) : k \in 0..Len(text)}

EndOffset(c) == ParseInt(c.endIndex)

\* every listed source of the span has a parsable index, and there is at least one
SourcesParse(c) ==
    /\ Len(c.sources) > 0
    /\ \A i \in 1..Len(c.sources) : SourceIndex(c.sources[i]) # NaN

\* a span the composer has no reason to drop for its position or its sources
Placeable(c) == EndOffset(c) \in Boundaries(answerText) /\ SourcesParse(c)

AllPlaceable == \A i \in 1..Len(spans) : Placeable(spans[i])

DistinctOffsets ==
    \A i, j \in 1..Len(spans) : i # j => EndOffset(spans[i]) # EndOffset(spans[j])

\* dense numbering by first appearance of a list of raw indices in reading order
DenseNumbers(raws) == [i \in 1..Len(raws) |-> IndexOf(Unique(raws), raws[i])]

\* the spans in ascending offset order, each citing one source: their raw indices
RawInReadingOrder ==
    LET sorted == SortedCitations(spans)
    IN [i \in 1..Len(sorted) |-> UniqueRefs(sorted[i])[1]]

SingleSourceSpans == \A i \in 1..Len(spans) : Len(UniqueRefs(spans[i])) = 1

\* the markers the pass spliced, with the span offset of each
Placed == InsertMarkers(answerText, spans).placed

RECURSIVE SumLen(_, _)
SumLen(placed, n) ==
    IF n = 0 THEN 0 ELSE SumLen(placed, n - 1) + ByteLength(placed[n].marker)

\* the sources cited by the spans that end at offset o
CitedAt(o) ==
    UNION {Range(UniqueRefs(spans[i])) : i \in {j \in 1..Len(spans) : EndOffset(spans[j]) = o}}

RECURSIVE SumCited(_)
SumCited(offsets) ==
    IF offsets = {} THEN 0
    ELSE LET o == CHOOSE x \in offsets : TRUE
         IN Cardinality(CitedAt(o)) + SumCited(offsets \ {o})

\* the spans whose endIndex lies within the text
InRangeSpans ==
    SelectIn(spans, {c \in Range(spans) : EndOffset(c) <= ByteLength(answerText)})

\* the position-numbered list the caller reads the results as: entry n is results[n - 1]
ResultEntries == {[number |-> n, sourceIndex |-> n - 1] : n \in 1..Len(results)}

----------------------------------------------------------------------------
(* Claims on VertexSearchProvider.search *)

\* C1: dense numbering by first appearance. When every span is placeable, at its own
\* offset and cites one source, the numbers shown in the output text, in reading
\* order, are the dense first-appearance numbers 1, 2, 3, ... of the raw indices.
C1_DenseNumbering ==
    (SearchReturned /\ AllPlaceable /\ DistinctOffsets /\ SingleSourceSpans)
        => MarkerNumbers(output) = DenseNumbers(RawInReadingOrder)

\* C2: marker/citation agreement. For placeable single-source spans whose indices lie
\* within the reference list, each number shown has exactly one entry of that number in
\* the returned list, built from the reference the span cited; and in Scenario A (text of
\* two units, spans after the first and after the second citing raw indices 0 and 2,
\* three references) the output carries [1] after the first unit and [2] after the second.
C2_ScenarioA ==
    /\ answerText = <<ChA, ChA>>
    /\ Len(spans) = 2
    /\ EndOffset(spans[1]) = 1 /\ EndOffset(spans[2]) = 2
    /\ SourcesParse(spans[1]) /\ SourcesParse(spans[2])
    /\ UniqueRefs(spans[1]) = <<0>> /\ UniqueRefs(spans[2]) = <<2>>
    /\ Len(references) = 3

C2_MarkerCitationAgreement ==
    SearchReturned =>
        /\ (AllPlaceable /\ DistinctOffsets /\ SingleSourceSpans
              /\ \A i \in 1..Len(spans) : UniqueRefs(spans[i])[1] < Len(references))
            => /\ Len(MarkerNumbers(output)) = Len(spans)
               /\ \A k \in 1..Len(spans) :
                    LET n == MarkerNumbers(output)[k]
                        hits == {e \in ResultEntries : e.number = n}
                    IN /\ Cardinality(hits) = 1
                       /\ \A e \in hits : e.sourceIndex = RawInReadingOrder[k]
        /\ C2_ScenarioA
            => output = <<ChA>> \o MarkerOf(0) \o <<ChA>> \o MarkerOf(1)

\* C4: offset drift. Marker i of the markers spliced for spans at ascending offsets
\* o1 < o2 < ... starts at byte o_i + L1 + ... + L(i-1) of the final text.
C4_OffsetDrift ==
    SearchReturned =>
        \A i \in 1..Len(Placed) :
            LET start == Placed[i].endIndex + SumLen(Placed, i - 1)
                bytes == Utf8Encode(output)
                marker == Utf8Encode(Placed[i].marker)
            IN /\ start + Len(marker) <= Len(bytes)
               /\ SubSeq(bytes, start + 1, start + Len(marker)) = marker

\* C5: merge of shared offsets. With every span placeable, the output carries, for each
\* offset, one [n] per distinct source cited by any of the spans that end there: no
\* cited source of a span that shares its offset is lost.
C5_MergeSharedOffsets ==
    (SearchReturned /\ AllPlaceable)
        => Len(MarkerNumbers(output))
             = SumCited({EndOffset(spans[i]) : i \in 1..Len(spans)})

\* C6: round trip. Deleting the markers from the output text gives back the original
\* text character for character (no marker is spliced inside a character).
C6_RoundTrip ==
    SearchReturned => StripMarkers(output) = answerText

\* C7: a span whose endIndex exceeds the byte length of the text is dropped: the output
\* is the one composed from the in-range spans alone.
C7_OutOfRangeDropped ==
    SearchReturned => output = InsertMarkers(answerText, InRangeSpans).aiModeAnswer

\* C8: malformed source sets are dropped: every number shown in a marker of the output
\* text lies between 1 and the number of references returned.
C8_MarkersWithinReferences ==
    SearchReturned =>
        \A k \in 1..Len(MarkerNumbers(output)) :
            /\ MarkerNumbers(output)[k] >= 1
            /\ MarkerNumbers(output)[k] <= Len(results)

\* C9: upstream failure. When the answer state is FAILED nothing is composed or looked
\* up, and the caller receives an explicit error that carries the skip reasons.
C9_UpstreamFailure ==
    (pc = "done" /\ state = "FAILED")
        => /\ ~composed
           /\ lookups = <<>>
           /\ response.kind = "error"
           /\ \A i \in 1..Len(skipReasons) : skipReasons[i] \in Range(response.message)

----------------------------------------------------------------------------
(* Claims on POST /api/energy-search *)

\* POST has answered with a composed answer
RouteReturned ==
    pc = "done" /\ entry = "route" /\ response.kind \in {"answer", "fallback"}

\* the citations of the response body
ReturnedCitations == IF response.kind = "answer" THEN citations ELSE <<>>

\* the distinct raw numbers the markers of the upstream answer text cite
CitedNumbers == Range(MarkerNumbers(answerText))

\* C3: gap-free codomain. The citation numbers of the returned list are exactly 1..N,
\* without repeats, N being the number of distinct sources the markers of the answer
\* cite: a reference nothing cites is not in the list.
C3_GapFreeCodomain ==
    RouteReturned =>
        /\ {ReturnedCitations[i].citationNumber : i \in 1..Len(ReturnedCitations)}
             = 1..Cardinality(CitedNumbers)
        /\ Len(ReturnedCitations) = Cardinality(CitedNumbers)

\* C10: resolution failure degrades, never aborts. Whatever signed-url lookups fail,
\* once the answer has arrived the request ends with a composed answer; every reference
\* handled so far has its citation, in order; a reference whose lookup failed has a pdf
\* citation with its page number and no link; a reference looked up with success has
\* the signed url; every other citation is what it is without any lookup.
C10_ResolutionDegrades ==
    (entry = "route" /\ state = "SUCCEEDED") =>
        /\ pc = "done" => (response.kind \in {"answer", "fallback"}
                             /\ Len(citations) = Len(references))
        /\ Len(citations) = idx
        /\ \A i \in 1..Len(citations) :
            LET sd == references[i]
                c == citations[i]
            IN /\ c.sourceIndex = i - 1
               /\ i \in failed
                    => /\ c.sourceType = "pdf"
                       /\ c.pageNumber = sd.page_number /\ c.pageNumber # Absent
                       /\ c.documentId = sd.document_id
                       /\ c.deepLink = NoUrl
               /\ (NeedsLookup(sd) /\ i \notin failed)
                    => c = [CitationOf(sd, i - 1, SignedUrl(sd.document_id, sd.page_number))
                               EXCEPT !.citationNumber = c.citationNumber]
               /\ ~NeedsLookup(sd)
                    => c = [CitationOf(sd, i - 1, NoUrl)
                               EXCEPT !.citationNumber = c.citationNumber]

\* C10 witness: the request has ended with an answer although one lookup failed, and a
\* citation after the failed one carries its signed url.
C10_Witness ==
    /\ RouteReturned
    /\ response.kind = "answer"
    /\ \E i \in failed : \E j \in 1..Len(citations) :
        /\ j > i
        /\ citations[i].deepLink = NoUrl
        /\ citations[j].deepLink # NoUrl

----------------------------------------------------------------------------
(* Claims on the signed-url lookups of POST /api/energy-search *)

\* the references whose iteration of transformReferences has begun
Started == (1..idx) \cup pending

\* a reference the claims call page-addressable: a pdf with a page number
PdfWithPage(sd) == sd.source_type = "pdf" /\ sd.page_number # Absent

\* the references (counted from 1) a marker [n] of the upstream answer text points to
CitedReferences == {n \in CitedNumbers : n >= 1 /\ n <= Len(references)}

\* C11: per-request lookup deduplication. Within one request no key
\* (documentId, pageNumber) is looked up twice, however many references carry it.
C11_LookupDeduplication ==
    \A i, j \in 1..Len(lookups) : i # j => lookups[i] # lookups[j]

\* C12: numbering precedes resolution. No signed-url lookup is started before the
\* marker pass over the answer text has run, and the text returned is the one the
\* marker pass gives whatever the lookups returned.
C12_NumberingPrecedesResolution ==
    entry = "route" =>
        /\ lookups # <<>> => composed
        /\ RouteReturned => output = RemapAnswer(answerText)

\* C13: resolution only for cited sources. Every lookup issued carries the key of a
\* reference that a marker of the answer cites.
C13_LookupOnlyForCited ==
    entry = "route" =>
        \A k \in 1..Len(lookups) :
            \E n \in CitedReferences :
                lookups[k] = <<references[n].document_id, references[n].page_number>>

\* C14: no lookup for documents that are not page-addressable. A lookup is in flight
\* only for a pdf with a page number; the lookups issued are one per such reference
\* among those handled; the citation of a docx, or of a pdf without page number, has
\* no link.
C14_LookupOnlyPdfWithPage ==
    (entry = "route" /\ state = "SUCCEEDED") =>
        /\ \A i \in pending : PdfWithPage(references[i])
        /\ Len(lookups) = Cardinality({i \in Started : PdfWithPage(references[i])})
        /\ \A i \in 1..Len(citations) :
              (references[i].document_id # "" /\ ~PdfWithPage(references[i]))
                  => citations[i].deepLink = NoUrl

\* C14 witness: the answer is returned with a docx that carries a page number and a
\* pdf of the same document and page; one lookup was issued, and only the pdf is linked.
C14_Witness ==
    /\ RouteReturned
    /\ Len(citations) = 2
    /\ \E i, j \in 1..2 :
        /\ references[i] = Document("docx", "abc", 4)
        /\ references[j] = Document("pdf", "abc", 4)
        /\ citations[i].deepLink = NoUrl
        /\ citations[j].deepLink # NoUrl
    /\ Len(lookups) = 1

\* C15: bounded lookup. A signed-url lookup that has been started comes to an end even
\* if the document backend never answers: the handler does not wait for it forever.
C15_BoundedLookup ==
    (pc = "route_lookup") ~> (pc # "route_lookup")

----------------------------------------------------------------------------
(* Claims on the stream emitter *)

\* the first two bytes of a frame: its type code and the colon
FramePrefix(f) == SubSeq(f.bytes, 1, 2)

\* a text frame starts with 0: and a completion frame with d:
IsTextFrame(f) == FramePrefix(f) = <<48, 58>>

IsFinishFrame(f) == FramePrefix(f) = <<100, 58>>

\* the units of the first k frames, concatenated
UnitsUpTo(k) == Join([j \in 1..k |-> frames[j].unit])

\* what was emitted is the beginning of the text
IsPrefixOfText(u) == Len(u) <= Len(finalText) /\ SubSeq(finalText, 1, Len(u)) = u

\* the emitter has run to its end and the consumer never cancelled
StreamCompleted == entry = "stream" /\ pc = "done" /\ streamState # "cancelled"

\* the number of spaces of the text
Spaces(text) == Cardinality({i \in 1..Len(text) : text[i] = ChSpace})

\* C16: frame ordering. While the consumer has not cancelled, the text frames enqueued
\* carry the units of the text in text order; a completion frame is the last frame and
\* the stream is then closed; the run ends closed, with every unit sent and one
\* completion frame that carries the finish reason. A direct answer of the manual
\* stream is written as its text part, then one finish part, and nothing after it.
C16_FrameOrdering ==
    /\ (entry = "stream" /\ streamState # "cancelled") =>
        /\ \A k \in 1..Len(frames) :
              /\ IsFinishFrame(frames[k]) => (k = Len(frames) /\ streamState = "closed")
              /\ ~IsFinishFrame(frames[k])
                    => (IsTextFrame(frames[k]) /\ IsPrefixOfText(UnitsUpTo(k)))
        /\ streamState = "closed" => pc = "done"
        /\ pc = "done"
              => /\ streamState = "closed"
                 /\ Len(frames) >= 2
                 /\ IsFinishFrame(frames[Len(frames)])
                 /\ Utf8Decode(frames[Len(frames)].bytes) = FinishLine
                 /\ UnitsUpTo(Len(frames) - 1) = finalText
                 /\ ~threw
    /\ entry = "manual" =>
        /\ \A k \in 1..Len(frames) :
              IsFinishFrame(frames[k]) => (k = Len(frames) /\ pc = "done")
        /\ (pc = "done" /\ response.kind = "direct")
              => /\ Len(frames) >= 2
                 /\ IsFinishFrame(frames[Len(frames)])
                 /\ IsTextFrame(frames[Len(frames) - 1])
                 /\ frames[Len(frames) - 1].unit = output
                 /\ Cardinality({k \in 1..Len(frames) : IsTextFrame(frames[k])}) = 1

\* C16 witness: an uncancelled run over a text of two different units has ended: two
\* text frames, then the completion frame.
C16_Witness ==
    /\ StreamCompleted
    /\ Len(frames) = 3
    /\ frames[1].unit # frames[2].unit
    /\ frames[1].unit # <<>> /\ frames[2].unit # <<>>
    /\ IsFinishFrame(frames[3])

\* C17: cooperative cancellation. Once the consumer has cancelled, no further frame is
\* enqueued, no exception is raised in the emitter and no pacing timer is pending.
C17_CooperativeCancellation ==
    streamState = "cancelled" =>
        /\ Len(frames) = cancelLen
        /\ ~threw
        /\ ~timer

\* what a consumer gets when a payload is no JSON string
ParseError == <<NaN>>

\* the text of a frame without its type code, colon and closing line feed
PayloadOf(f) ==
    LET line == Utf8Decode(f.bytes)
    IN SubSeq(line, 3, Len(line) - 1)

\* the string-unescape rule of the transport (the payload of a 0: frame is a JSON
\* string): the characters between the quotes, with \" \\ and \n unescaped; an
\* unescaped quote before the end, a control character, a backslash before anything
\* else, or a missing closing quote is a parse error
RECURSIVE UnescapeFrom(_, _, _)
UnescapeFrom(p, i, acc) ==
    IF i > Len(p) THEN ParseError
    ELSE IF p[i] = ChQuote THEN (IF i = Len(p) THEN acc ELSE ParseError)
    ELSE IF p[i] = ChBackslash
        THEN IF i + 1 > Len(p) THEN ParseError
             ELSE IF p[i + 1] \in {ChQuote, ChBackslash}
                 THEN UnescapeFrom(p, i + 2, Append(acc, p[i + 1]))
             ELSE IF p[i + 1] = ChLetterN
                 THEN UnescapeFrom(p, i + 2, Append(acc, ChNewline))
             ELSE ParseError
    ELSE IF p[i] < ChSpace THEN ParseError
    ELSE UnescapeFrom(p, i + 1, Append(acc, p[i]))

Unescape(p) ==
    IF Len(p) < 2 \/ p[1] # ChQuote THEN ParseError ELSE UnescapeFrom(p, 2, <<>>)

\* C18: payload escaping survives transport. Unescaping the quoted payload of a text
\* frame gives back exactly the unit the frame was made from.
C18_EscapingRoundTrip ==
    entry = "stream" =>
        \A k \in 1..Len(frames) :
            IsTextFrame(frames[k]) => Unescape(PayloadOf(frames[k])) = frames[k].unit

\* C19: whitespace-preserving split. When the emitter has run to its end, the units of
\* the text frames, concatenated in emission order, are the text, and there is one
\* text frame more than the text has spaces.
C19_WhitespacePreservingSplit ==
    StreamCompleted =>
        /\ \A k \in 1..(Len(frames) - 1) : IsTextFrame(frames[k])
        /\ UnitsUpTo(Len(frames) - 1) = finalText
        /\ Len(frames) - 1 = Spaces(finalText) + 1

\* C19 witness: a text that starts with a run of two spaces has been emitted to its
\* end, in three text frames, two of them carrying a lone space.
C19_Witness ==
    /\ StreamCompleted
    /\ Len(finalText) = 3
    /\ finalText[1] = ChSpace /\ finalText[2] = ChSpace /\ finalText[3] # ChSpace
    /\ Len(frames) = 4
    /\ frames[1].unit = <<ChSpace>> /\ frames[2].unit = <<ChSpace>>

----------------------------------------------------------------------------
(* Claims on every entry point *)

\* the handler has answered a request that carried no query text (executeToolCall
\* reads the query only in search mode)
AnsweredEmptyQuery ==
    /\ pc = "done"
    /\ entry # "none"
    /\ query = ""
    /\ entry = "manual" => searchMode

\* the caller was given the fixed message of the entry point
FixedMessageGiven ==
    \/ response.message = <<"Query is required">>
    \/ finalText = EmptyQueryMessage

\* C20: empty input short-circuits. A request without query text is answered with the
\* fixed user-facing message of the entry point, with no request to the answer service,
\* no signed-url lookup, no composition and no exception.
C20_EmptyInputShortCircuits ==
    AnsweredEmptyQuery =>
        /\ FixedMessageGiven
        /\ answerRequests = 0
        /\ lookups = <<>>
        /\ ~composed
        /\ ~threw
        /\ response.status # 500

----------------------------------------------------------------------------
(* Claims on the numbering of the inline markers by queryAIMode *)

\* one left-to-right pass over the text: every marker [k] becomes [f[k]], the rest is
\* copied
RECURSIVE MapMarkersFrom(_, _, _)
MapMarkersFrom(s, f, i) ==
    IF i > Len(s) THEN <<>>
    ELSE IF MatchEnd(s, i) # 0
        THEN MarkerOf(f[ParseInt(SubSeq(s, i + 1, MatchEnd(s, i) - 1))] - 1)
             \o MapMarkersFrom(s, f, MatchEnd(s, i) + 1)
    ELSE <<s[i]>> \o MapMarkersFrom(s, f, i + 1)

MapMarkers(s, f) == MapMarkersFrom(s, f, 1)

\* the injective relabellings of the raw numbers of the service
Relabellings ==
    {f \in [RawNumbers -> RawNumbers] : \A a, b \in RawNumbers : a # b => f[a] # f[b]}

\* the old -> new map of queryAIMode, as a function on the numbers the answer cites
OldToNew(answer) == [k \in Range(MarkerNumbers(answer)) |-> NumberMap(answer, k)]

\* C21: numbering is independent of the upstream labels. The text returned for an
\* answer is also the text returned for the same answer with its raw marker numbers
\* relabelled injectively: same text, same marker numbers at the same positions.
C21_LabelIndependence ==
    (RouteReturned /\ response.kind = "answer") =>
        \A f \in Relabellings : RemapAnswer(MapMarkers(answerText, f)) = output

\* C22: the in-place rewrite equals a single pass. The text queryAIMode returns is the
\* upstream text with every marker replaced, in one left-to-right pass, by the image
\* of its original number under the old -> new map; two markers with different
\* original numbers have different numbers in the text returned.
C22_InPlaceEqualsSinglePass ==
    (RouteReturned /\ response.kind = "answer") =>
        /\ output = MapMarkers(answerText, OldToNew(answerText))
        /\ \A i, j \in 1..Len(MarkerNumbers(answerText)) :
              MarkerNumbers(answerText)[i] # MarkerNumbers(answerText)[j]
                  => MarkerNumbers(output)[i] # MarkerNumbers(output)[j]

----------------------------------------------------------------------------
(* Claims on the marker pass of VertexSearchProvider.search *)

\* C23: marker text of a multi-source span. The marker spliced for a span is one [n]
\* per distinct source the span cites, and its numbers ascend from left to right (so
\* none is repeated), whatever the order in which the span lists its sources.
C23_MultiSourceMarker ==
    SearchReturned =>
        \A i \in 1..Len(Placed) :
            LET ns == MarkerNumbers(Placed[i].marker)
            IN /\ Len(ns) = Cardinality(Range(Placed[i].refs))
               /\ \A a, b \in 1..Len(ns) : a < b => ns[a] < ns[b]

\* C25: a span without usable sources does not consume its position. When a span with
\* no valid reference index and a span with valid reference indices end at the same
\* offset, a marker is spliced for that offset, whichever of the two comes first.
C25_EmptySpanKeepsPosition ==
    SearchReturned =>
        \A i, j \in 1..Len(spans) :
            (/\ EndOffset(spans[i]) = EndOffset(spans[j])
             /\ UniqueRefs(spans[i]) = <<>>
             /\ UniqueRefs(spans[j]) # <<>>)
                => \E p \in 1..Len(Placed) :
                      /\ Placed[p].endIndex = EndOffset(spans[j])
                      /\ Placed[p].refs = UniqueRefs(spans[j])

----------------------------------------------------------------------------
(* Claims on the links of video references *)

\* a reference to a video: structData without the fields of a document, with a video id
IsVideoRef(sd) == sd.structData /\ ~IsDocument(sd) /\ sd.video_id # ""

\* the watch-with-timestamp link of a video reference: the start is 0 when absent
WatchLink(sd) == YoutubeUrl(sd.video_id, IF sd.timestamp_start = Absent THEN 0
                                         ELSE sd.timestamp_start)

\* C24: video links are pure. A video reference is never waiting for a lookup and adds
\* none to the lookups issued; the link of its citation is the watch-with-timestamp
\* link of its video id and start (0 when absent), and so is the url the mapper of
\* search gives it, which needs no lookup.
C24_VideoLinksPure ==
    (entry = "route" /\ state = "SUCCEEDED") =>
        /\ \A i \in pending : ~IsVideoRef(references[i])
        /\ Len(lookups) <= Cardinality({i \in Started : ~IsVideoRef(references[i])})
        /\ \A i \in 1..Len(references) :
              IsVideoRef(references[i]) =>
                  /\ ~NeedsLookup(references[i])
                  /\ SearchResult(references[i], NoUrl).url = WatchLink(references[i])
                  /\ i <= Len(citations) =>
                        /\ GetUrl(citations[i]) = WatchLink(references[i])
                        /\ citations[i].deepLink = NoUrl

\* C24 witness: the answer is returned with a video without start and a pdf that was
\* looked up; the link of the video is the watch link at 0 seconds.
C24_Witness ==
    /\ RouteReturned
    /\ Len(lookups) = 1
    /\ \E i \in 1..Len(citations) :
        /\ references[i] = Video(Absent)
        /\ GetUrl(citations[i]) = YoutubeUrl("vid", 0)

----------------------------------------------------------------------------
(* Claims on createManualToolStreamResponse and executeToolCall *)

\* executeToolCall has returned a non-empty directAnswer
DirectAnswerReturned == entry = "manual" /\ pc = "done" /\ output # <<>>

\* the positions of the text parts and of the finish_message parts written so far
TextPartsWritten == {k \in 1..Len(frames) : IsTextFrame(frames[k])}

FinishPartsWritten == {k \in 1..Len(frames) : IsFinishFrame(frames[k])}

\* C26: direct answer and model generation are mutually exclusive. With a directAnswer
\* the stream gets exactly one text part, holding the whole answer, then exactly one
\* finish_message part; handleStreamFinish is called once and streamText never. With
\* no directAnswer streamText is called once and no text or finish_message part is
\* written by the function. Before executeToolCall returns, neither has happened.
C26_DirectOrGeneration ==
    entry = "manual" =>
        /\ DirectAnswerReturned =>
              /\ \E t \in TextPartsWritten :
                    /\ TextPartsWritten = {t}
                    /\ frames[t].unit = output
                    /\ FinishPartsWritten = {t + 1}
              /\ handleStreamFinishCalls = 1
              /\ streamTextCalls = 0
        /\ (pc = "done" /\ ~DirectAnswerReturned) =>
              /\ streamTextCalls = 1
              /\ handleStreamFinishCalls = 0
              /\ TextPartsWritten = {}
              /\ FinishPartsWritten = {}
        /\ pc # "done" =>
              /\ streamTextCalls = 0
              /\ handleStreamFinishCalls = 0
              /\ TextPartsWritten = {}
              /\ FinishPartsWritten = {}

\* C26 witness: a direct answer with a linked marker was written after the two
\* annotations: four parts, one call of handleStreamFinish, none of streamText.
C26_Witness ==
    /\ DirectAnswerReturned
    /\ Len(frames) = 4
    /\ IsTextFrame(frames[3])
    /\ frames[3].unit # answerText
    /\ IsFinishFrame(frames[4])
    /\ handleStreamFinishCalls = 1
    /\ streamTextCalls = 0

\* the positions of the tool-call annotations with the given state written so far
ToolCallParts(st) ==
    {k \in 1..Len(frames) :
        /\ frames[k].type \in {"data", "message_annotation"}
        /\ frames[k].state = st}

LinkOf(rs, n) == <<ChLParen>> \o CitationUrl(rs[n]) \o <<ChRParen>>

\* one left-to-right pass over the answer: every marker [n] with 1 <= n <= Len(rs) is
\* copied and followed by the link of result n; everything else is copied
RECURSIVE LinkedFrom(_, _, _)
LinkedFrom(s, rs, i) ==
    IF i > Len(s) THEN <<>>
    ELSE IF MatchEnd(s, i) # 0
        THEN LET n == ParseInt(SubSeq(s, i + 1, MatchEnd(s, i) - 1))
             IN SubSeq(s, i, MatchEnd(s, i))
                \o (IF n >= 1 /\ n <= Len(rs) THEN LinkOf(rs, n) ELSE <<>>)
                \o LinkedFrom(s, rs, MatchEnd(s, i) + 1)
    ELSE <<s[i]>> \o LinkedFrom(s, rs, i + 1)

\* C28: citation linkification. In the direct answer every marker [n] of the AI-mode
\* answer with 1 <= n <= number of results is followed by the link of result n - 1
\* (the reference url of the document for a pdf), every other marker and the rest of
\* the text are as they were, and the pass applied to the direct answer changes nothing.
C28_Linkification ==
    DirectAnswerReturned =>
        /\ output = LinkedFrom(answerText, results, 1)
        /\ Linkify(output, results, 0) = output

----------------------------------------------------------------------------
(* Claims on the document front end *)

\* C29: the upload status follows the latest file. Once every request has settled, the
\* status, filename and result shown (unless the user has reset the view) are those of
\* the file submitted last; and 'success' or 'error' is never shown for one file while
\* the request of a file submitted later is in flight.
C29_StatusFollowsLatest ==
    submitted # <<>> =>
        /\ (inFlight = {} /\ uploadState.status # "idle") =>
              /\ uploadState.of = Len(submitted)
              /\ uploadState.filename = submitted[Len(submitted)].name
              /\ uploadState.status = "success"
                    => uploadState.result = UploadResult(Len(submitted))
        /\ uploadState.status \in {"success", "error"} =>
              \A n \in inFlight : n < uploadState.of

\* the page the claim names for a request: 1 when the parameter is missing
ClaimedPage == IF viewPage = Undefined THEN <<ChZero + 1>> ELSE viewPage

============================================================================
